---------------------------- MODULE Spec2Model ----------------------------
(***************************************************************************)
(* A model of the workflow engine (workflow.py, state.py): the function    *)
(* registry, the workflow table and the traversal loop of                  *)
(* WorkflowEngine.execute_workflow, one action per step of the loop; of    *)
(* the code review handlers and workflow of main.py; and of the run table  *)
(* and background tasks of endpoints.py.                                   *)
(***************************************************************************)
EXTENDS Integers, Sequences, FiniteSets, TLC

VARIABLES
    registry,         \* WorkflowEngine.registry: function name -> handler
    workflows,        \* WorkflowEngine.workflows: workflow name -> definition
    pc,               \* position of the execute_workflow call
    workflow_name,    \* parameter `workflow_name` (Nil before the call)
    workflow,         \* local `workflow` (Nil before the lookup)
    state,            \* local `state`, the WorkflowState (Nil before it is created)
    current_node_id,  \* local `current_node_id`
    node,             \* local `node`
    result,           \* local `result`, the handler's raw return value
    error,            \* the exception that left execute_workflow (Nil if none)
    steps,            \* number of loop iterations that entered a node
    visited,          \* history: the keys of the nodes entered, in order
    registered,       \* history: the entry of the last register_* call
    workflow_runs,    \* endpoints.workflow_runs: run id -> run record
    tasks,            \* the event loop's tasks: run id -> task
    current,          \* the run whose task the event loop is executing
    response          \* the last response of get_workflow_state

\* The variables of one call of execute_workflow.
call == <<pc, workflow_name, workflow, state, current_node_id, node, result,
          error, steps, visited>>

vars == <<registry, workflows, pc, workflow_name, workflow, state,
          current_node_id, node, result, error, steps, visited, registered,
          workflow_runs, tasks, current, response>>

(***************************************************************************)
(* Bounds of the model.                                                    *)
(***************************************************************************)
\* Largest number of nodes one run may enter (the engine itself has no bound).
MaxSteps == 5

\* Bound: the number of runs requested through run_workflow.
MaxRuns == 2

(***************************************************************************)
(* Optional values: Python's None is Nil, any other value x is Some(x).    *)
(***************************************************************************)
Nil == <<>>
Some(x) == <<x>>

(***************************************************************************)
(* Python values a handler may return or that state.data may hold. Every   *)
(* value is a record of the same shape; `kind` says which field counts.    *)
(***************************************************************************)
EmptyDict == [k \in {} |-> 0]
PyVal(kind, b, i, t, s, m) ==
    [kind |-> kind, b |-> b, i |-> i, t |-> t, s |-> s, m |-> m]
VBool(b) == PyVal("bool", b, 0, "", <<>>, EmptyDict)
VInt(i) == PyVal("int", FALSE, i, "", <<>>, EmptyDict)
VStr(t) == PyVal("str", FALSE, 0, t, <<>>, EmptyDict)
VList(s) == PyVal("list", FALSE, 0, "", s, EmptyDict)
VDict(m) == PyVal("dict", FALSE, 0, "", <<>>, m)
VNone == PyVal("NoneType", FALSE, 0, "", <<>>, EmptyDict)
\* A coroutine object: what calling an `async def` function returns.
VCoroutine == PyVal("coroutine", FALSE, 0, "", <<>>, EmptyDict)

\* isinstance(v, dict)
IsDict(v) == v.kind = "dict"

\* The mappings handlers return in this model.
DictX1 == [x |-> VInt(1)]
DictYNested == [y |-> VDict([x |-> VInt(0)])]
DictXNested == [x |-> VDict([y |-> VInt(1)])]
DictSelf == [self |-> VInt(1)]

\* The values a handler body may return.
Values ==
    { VBool(FALSE), VBool(TRUE), VInt(0), VInt(1), VStr(""), VStr("s"),
      VList(<<>>), VList(<<0>>), VNone,
      VDict(EmptyDict), VDict(DictX1), VDict(DictYNested), VDict(DictXNested),
      VDict(DictSelf) }

\* A variant of bool(v) that tests `is not None` instead of truthiness.
PyBoolNotNone(v) == v.kind # "NoneType"

\* A variant of bool(v) that takes every dict, the empty one too, for true.
PyBoolDictTruthy(v) ==
    CASE v.kind = "bool" -> v.b
      [] v.kind = "int" -> v.i # 0
      [] v.kind = "str" -> v.t # ""
      [] v.kind = "list" -> Len(v.s) # 0
      [] v.kind = "NoneType" -> FALSE
      [] OTHER -> TRUE

\* A variant of bool(v) that tests `is True` instead of truthiness.
PyBoolIsTrue(v) == v.kind = "bool" /\ v.b

\* bool(v): Python's truth value of v.
PyBool(v) ==
    CASE v.kind = "bool" -> v.b
      [] v.kind = "int" -> v.i # 0
      [] v.kind = "str" -> v.t # ""
      [] v.kind = "list" -> Len(v.s) # 0
      [] v.kind = "dict" -> DOMAIN v.m # {}
      [] v.kind = "NoneType" -> FALSE
      [] OTHER -> TRUE

\* str(b) for a bool b.
StrOfBool(b) == IF b THEN "True" ELSE "False"

\* s.lower() on the two strings str(bool) produces.
Lower(s) ==
    CASE s = "True" -> "true"
      [] s = "False" -> "false"
      [] OTHER -> s

\* Truth value of an Optional[str]: None and "" are falsy.
StrTruthy(o) == o # Nil /\ o[1] # ""

(***************************************************************************)
(* dict operations. A branch table (Node.next_nodes) keeps insertion       *)
(* order, so it is a sequence of <<label, target>> pairs with distinct     *)
(* labels; state.data is a function from its keys to values.               *)
(***************************************************************************)
\* next_nodes.get(k): the target stored under k, or None.
DictGet(d, k) ==
    IF \E i \in 1..Len(d) : d[i][1] = k
    THEN Some(d[CHOOSE i \in 1..Len(d) : d[i][1] = k][2])
    ELSE Nil

\* next(iter(next_nodes.values())): the first target in insertion order.
FirstValue(d) == d[1][2]

\* d[k] = v
DictSet(d, k, v) ==
    [j \in DOMAIN d \cup {k} |-> IF j = k THEN v ELSE d[j]]

\* d.update(u): assigns u's items one key at a time.
RECURSIVE DictUpdate(_, _, _)
DictUpdate(d, u, keys) ==
    IF keys = {} THEN d
    ELSE LET k == CHOOSE j \in keys : TRUE
         IN DictUpdate(DictSet(d, k, u[k]), u, keys \ {k})

(***************************************************************************)
(* WorkflowState (state.py).                                               *)
(***************************************************************************)
\* A variant of the field defaults in which a new state is already completed.
NewStateCompleted(d) ==
    [data |-> d, current_node |-> Nil, status |-> "completed",
     execution_log |-> <<>>, metadata |-> EmptyDict]

\* WorkflowState(data=d): the field defaults of the model.
NewState(d) ==
    [data |-> d, current_node |-> Nil, status |-> "pending",
     execution_log |-> <<>>, metadata |-> EmptyDict]

\* WorkflowState.add_log (the timestamp is left out).
add_log(s, message, level) ==
    [s EXCEPT !.execution_log =
        Append(@, [level |-> level, message |-> message])]

\* WorkflowState.update_state(**updates), once the keywords are bound.
update_state(s, updates) ==
    [s EXCEPT !.data = DictUpdate(@, updates, DOMAIN updates)]

\* Binding **result to update_state(self, **updates) raises TypeError when a
\* key collides with the positional parameter `self`.
KeywordsBind(updates) == "self" \notin DOMAIN updates


(***************************************************************************)
(* Nodes and workflow definitions (workflow.py).                           *)
(***************************************************************************)
\* Node(node_id=..., node_type=..., function=..., next_nodes=...)
Node(node_id, node_type, function, next_nodes) ==
    [node_id |-> node_id, node_type |-> node_type, function |-> function,
     next_nodes |-> next_nodes]

\* WorkflowDefinition(name=..., entry_point=..., nodes=...)
WorkflowDefinition(name, entry_point, nodes) ==
    [name |-> name, entry_point |-> entry_point, nodes |-> nodes]

\* A cycle a -> b -> a closed by a condition, and a terminal task c.
GraphCycle ==
    WorkflowDefinition("w", "a",
        [a |-> Node("a", "task", "f", << <<"other", "c">>, <<"default", "b">> >>),
         b |-> Node("b", "condition", "g", << <<"true", "a">>, <<"false", "c">> >>),
         c |-> Node("c", "task", "f", <<>>)])

\* A condition without a "false" branch, a loop node, and a task whose only
\* branch names a node that is not in the graph.
GraphCond ==
    WorkflowDefinition("w", "a",
        [a |-> Node("a", "condition", "f", << <<"true", "b">>, <<"default", "c">> >>),
         b |-> Node("b", "loop", "g", << <<"default", "c">>, <<"other", "zz">> >>),
         c |-> Node("c", "task", "g", << <<"other", "zz">> >>)])

\* The entry point is not a node of the graph.
GraphMissingEntry ==
    WorkflowDefinition("w", "m", [a |-> Node("a", "task", "f", <<>>)])

\* The entry point is the empty string.
GraphEmptyEntry ==
    WorkflowDefinition("w", "", [a |-> Node("a", "task", "f", <<>>)])

\* Branch tables whose "default" target is the empty string.
GraphFalsyDefault ==
    WorkflowDefinition("v", "a",
        [a |-> Node("a", "task", "f", << <<"other", "b">>, <<"default", "">> >>),
         b |-> Node("b", "loop", "f", << <<"default", "">>, <<"other", "a">> >>)])

\* A node stored under a key that differs from its node_id (create_workflow
\* takes the key and the node_id from different fields of the request).
GraphRenamed ==
    WorkflowDefinition("v", "a",
        [a |-> Node("a2", "condition", "g", << <<"false", "a">> >>)])

\* A two-node cycle of the counting handler: a task, then a condition whose
\* only branch leads back.
GraphInc ==
    WorkflowDefinition("v", "a",
        [a |-> Node("a", "task", "inc", << <<"default", "b">> >>),
         b |-> Node("b", "condition", "inc", << <<"true", "a">> >>)])

Graphs ==
    { GraphCycle, GraphCond, GraphMissingEntry, GraphEmptyEntry,
      GraphFalsyDefault, GraphRenamed, GraphInc }

\* The workflow names a caller may ask for ("nope" is never registered).
WorkflowNames == {"w", "v", "nope"}

\* The initial_state arguments a caller may pass.
InitialStates ==
    {Nil, Some(EmptyDict), Some([x |-> VInt(0)]), Some([n |-> VInt(0)])}

(***************************************************************************)
(* Handlers. A handler is a callable with a __name__; `kind` is how it was *)
(* defined, `logs` whether its body calls state.add_log (as the handlers   *)
(* of main.py do). What the body of f or g returns or raises is chosen per *)
(* call; the handlers defined further down have a body of their own.       *)
(***************************************************************************)
Handler(name, kind, logs) == [name |-> name, kind |-> kind, logs |-> logs]

\* A deterministic handler: `return {"n": state.data["n"] + 1}`.
inc == Handler("inc", "def", FALSE)

Handlers ==
    { Handler("f", "def", FALSE), Handler("f", "async def", FALSE),
      Handler("g", "def", TRUE), Handler("g", "awaitable callable", FALSE),
      inc }

\* hasattr(func, '__await__'): false of plain functions and of `async def`
\* functions alike; true only of a callable object that defines __await__.
HasAwaitAttr(func) == func.kind = "awaitable callable"

\* What one execution of a handler body does: return `ret`, or raise.
Outcomes == [raises : BOOLEAN, ret : Values]

\* The message a logging handler appends (main.py, end_workflow).
HandlerLogMessage == <<"Workflow completed successfully">>

\* The exception a failing handler body raises.
HandlerException == [type |-> "KeyError", message |-> <<"'line'">>]

\* The exception the body of handler func raises when it fails.
RaisedBy(func) ==
    CASE func.name \in {"inc", "later"} ->
           [type |-> "KeyError", message |-> <<"'n'">>]
      [] func.name = "extract_functions" ->
           [type |-> "AttributeError",
            message |-> <<"'int' object has no attribute 'split'">>]
      [] OTHER -> HandlerException

\* The body of inc on state s: the next count, or KeyError without a count.
IncBody(s) ==
    IF "n" \in DOMAIN s.data /\ s.data["n"].kind = "int"
    THEN {[raises |-> FALSE, ret |-> VDict([n |-> VInt(s.data["n"].i + 1)])]}
    ELSE {[raises |-> TRUE, ret |-> VNone]}

(***************************************************************************)
(* The handlers of the code review workflow (main.py). A source text is a  *)
(* str given by its lines, the result of code.split('\n'); the lines are   *)
(* taken from a few sample lines, and the tests the handlers make on a     *)
(* line are tables over the samples. Of the dicts the handlers put in      *)
(* their lists, the constant fields (message, severity, suggestion) are    *)
(* left out.                                                               *)
(***************************************************************************)
VText(lines) == PyVal("str", FALSE, 0, "", lines, EmptyDict)

SampleDef == "def f():"
SampleBody == "    return 1"
SamplePrint == "print(f())"
SampleTodo == "# TODO"

\* line.strip()
Strip(line) == IF line = SampleBody THEN "return 1" ELSE line

\* len(line) - len(line.lstrip())
Indent(line) == IF line = SampleBody THEN 4 ELSE 0

\* line.split('def ')[1].split('(')[0].strip()
FuncName(line) == "f"

\* state.data.get(key, default)
DataGet(s, key, default) == IF key \in DOMAIN s.data THEN s.data[key] ELSE default

\* The indices of a sequence, in order.
Indices(seq) == [i \in 1..Len(seq) |-> i]

\* main.py lines 31-38: the functions found in the code.
Functions(s) ==
    LET lines == DataGet(s, "code", VText(<<"">>)).s
        defs == SelectSeq(Indices(lines), LAMBDA i : Strip(lines[i]) = SampleDef)
    IN [k \in 1..Len(defs) |->
           VDict([name |-> VStr(FuncName(lines[defs[k]])), line |-> VInt(defs[k])])]

\* main.py lines 29-41. code.split raises AttributeError unless code is a str.
ExtractFunctionsBody(s) ==
    IF DataGet(s, "code", VText(<<"">>)).kind # "str"
    THEN {[raises |-> TRUE, ret |-> VNone]}
    ELSE {[raises |-> FALSE,
           ret |-> VDict([extracted_functions |-> VList(Functions(s)),
                          function_count |-> VInt(Len(Functions(s)))])]}

\* main.py lines 53-61: line_count of the function that starts at start_line.
LineCount(code_lines, start_line) ==
    LET indent == Indent(code_lines[start_line])
        ends == {i \in start_line..(Len(code_lines) - 1) :
                    /\ Strip(code_lines[i + 1]) # ""
                    /\ Indent(code_lines[i + 1]) <= indent
                    /\ Strip(code_lines[i + 1]) # SampleTodo}
        end_line == IF ends = {} THEN Len(code_lines)
                    ELSE CHOOSE i \in ends : \A j \in ends : i <= j
    IN end_line - start_line

\* main.py lines 62-65: the score of a function of line_count lines.
ComplexityScore(line_count) ==
    VDict([line_count |-> VInt(line_count),
           complexity |-> VStr(IF line_count > 20 THEN "high"
                               ELSE IF line_count > 10 THEN "medium" ELSE "low")])

\* main.py lines 46-67: the scores by function name; a later function of the
\* same name overwrites an earlier one.
ComplexityScores(s) ==
    LET functions == DataGet(s, "extracted_functions", VList(<<>>)).s
        code_lines == DataGet(s, "code", VText(<<"">>)).s
        names == {functions[k].m["name"].t : k \in 1..Len(functions)}
        last(name) == CHOOSE k \in 1..Len(functions) :
                         /\ functions[k].m["name"].t = name
                         /\ \A j \in 1..Len(functions) :
                               functions[j].m["name"].t = name => j <= k
    IN [name \in names |->
           ComplexityScore(LineCount(code_lines, functions[last(name)].m["line"].i))]

\* main.py lines 44-70
CheckComplexityBody(s) ==
    {[raises |-> FALSE,
      ret |-> VDict([complexity_analysis |-> VDict(ComplexityScores(s))])]}

\* main.py lines 80-100: the issues found from line i on.
RECURSIVE IssuesFrom(_, _)
IssuesFrom(lines, i) ==
    IF i > Len(lines) THEN <<>>
    ELSE (IF Strip(lines[i]) = SamplePrint
          THEN <<VDict([line |-> VInt(i), type |-> VStr("debug_code")])>>
          ELSE <<>>)
         \o (IF Strip(lines[i]) = SampleTodo
             THEN <<VDict([line |-> VInt(i), type |-> VStr("todo")])>>
             ELSE <<>>)
         \o IssuesFrom(lines, i + 1)

Issues(s) == IssuesFrom(DataGet(s, "code", VText(<<"">>)).s, 1)

\* main.py lines 73-103
DetectIssuesBody(s) ==
    {[raises |-> FALSE,
      ret |-> VDict([issues |-> VList(Issues(s)),
                     issue_count |-> VInt(Len(Issues(s)))])]}

\* main.py lines 109-130: one suggestion per function of high complexity,
\* then one per debug_code issue.
Suggestions(s) ==
    LET complexity == DataGet(s, "complexity_analysis", VDict(EmptyDict)).m
        issues == DataGet(s, "issues", VList(<<>>)).s
        high == {func \in DOMAIN complexity :
                    complexity[func].m["complexity"].t = "high"}
        refactors == [k \in 1..Cardinality(high) |->
                         VDict([type |-> VStr("refactor"), line |-> VInt(0)])]
        debug == SelectSeq(issues, LAMBDA issue : issue.m["type"].t = "debug_code")
    IN refactors \o
       [k \in 1..Len(debug) |->
           VDict([type |-> VStr("improvement"), line |-> debug[k].m["line"]])]

\* main.py lines 133-135: max(0, 100 - (issue_count * 2) - (function_count * 5))
QualityScore(s) ==
    LET issue_count == DataGet(s, "issue_count", VInt(0)).i
        function_count == DataGet(s, "function_count", VInt(1)).i
        score == 100 - (issue_count * 2) - (function_count * 5)
    IN IF score > 0 THEN score ELSE 0

\* main.py lines 106-140
SuggestImprovementsBody(s) ==
    {[raises |-> FALSE,
      ret |-> VDict([suggestions |-> VList(Suggestions(s)),
                     quality_score |-> VInt(QualityScore(s)),
                     quality_meets_threshold |-> VBool(QualityScore(s) >= 70)])]}

\* main.py lines 143-146
EndWorkflowBody(s) ==
    {[raises |-> FALSE,
      ret |-> VDict([status |-> VStr("completed"),
                     message |-> VStr("Workflow execution finished")])]}

\* The names main.py registers its handlers under.
CodeReviewNames ==
    {"extract_functions", "check_complexity", "detect_issues",
     "suggest_improvements", "end_workflow"}

\* The message a handler of main.py logs on state s before it returns.
CodeReviewLogMessage(name, s) ==
    CASE name = "extract_functions" ->
           <<"Extracted ", ToString(Len(Functions(s))), " functions from code">>
      [] name = "check_complexity" ->
           <<"Analyzed complexity for ", ToString(Cardinality(DOMAIN ComplexityScores(s))),
             " functions">>
      [] name = "detect_issues" ->
           <<"Detected ", ToString(Len(Issues(s))), " potential issues in the code">>
      [] name = "suggest_improvements" ->
           <<"Generated ", ToString(Len(Suggestions(s))), " improvement suggestions">>
      [] OTHER -> HandlerLogMessage

\* What the body of handler func can do when it is run on state s: the
\* handlers with a known body do what the body says, any other handler is
\* arbitrary code.
BodyOutcomes(func, s) ==
    CASE func.name \in {"inc", "later"} -> IncBody(s)
      [] func.name = "extract_functions" -> ExtractFunctionsBody(s)
      [] func.name = "check_complexity" -> CheckComplexityBody(s)
      [] func.name = "detect_issues" -> DetectIssuesBody(s)
      [] func.name = "suggest_improvements" -> SuggestImprovementsBody(s)
      [] func.name = "end_workflow" -> EndWorkflowBody(s)
      [] OTHER -> Outcomes

\* The exceptions execute_workflow itself raises.
WorkflowNotFound(name) ==
    [type |-> "ValueError", message |-> <<"Workflow '", name, "' not found">>]
NodeNotFound(node_id) ==
    [type |-> "ValueError", message |-> <<"Node '", node_id, "' not found in workflow">>]
FunctionNotFound(function) ==
    [type |-> "ValueError", message |-> <<"Function '", function, "' not found in registry">>]
KeywordTypeError ==
    [type |-> "TypeError",
     message |-> <<"update_state() got multiple values for argument 'self'">>]

\* f"Node '{node.node_id}' completed successfully"
CompletedMessage(node_id) == <<"Node '", node_id, "' completed successfully">>

\* f"Error in node '{node.node_id}': {str(e)}"
ErrorMessage(node_id, e) == <<"Error in node '", node_id, "': ">> \o e.message

(***************************************************************************)
(* The engine.                                                             *)
(***************************************************************************)
\* No call of execute_workflow has been made.
NoCall ==
    /\ pc = "idle"
    /\ workflow_name = Nil
    /\ workflow = Nil
    /\ state = Nil
    /\ current_node_id = Nil
    /\ node = Nil
    /\ result = Nil
    /\ error = Nil
    /\ steps = 0
    /\ visited = <<>>

\* endpoints.py line 11: no run has been requested; nothing registered yet.
NoRuns ==
    /\ registered = Nil
    /\ workflow_runs = <<>>
    /\ tasks = <<>>
    /\ current = Nil
    /\ response = Nil

Init ==
    /\ registry = EmptyDict
    /\ workflows = EmptyDict
    /\ NoCall
    /\ NoRuns

\* `initial_state or {}`: None and the empty dict both give {}.
OrEmptyDict(initial_state) ==
    IF initial_state = Nil \/ DOMAIN initial_state[1] = {}
    THEN EmptyDict
    ELSE initial_state[1]

\* A variant of register_function that keeps the entry a name already has.
RegisterFunctionOnce(func) ==
    /\ pc = "idle"
    /\ registry' = IF func.name \in DOMAIN registry
                   THEN registry
                   ELSE DictSet(registry, func.name, func)
    /\ UNCHANGED <<workflows, call>>

\* WorkflowEngine.register_function
register_function(func) ==
    /\ pc = "idle"
    /\ registry' = DictSet(registry, func.name, func)
    /\ UNCHANGED <<workflows, call>>

\* WorkflowEngine.register_workflow
register_workflow(wf) ==
    /\ pc = "idle"
    /\ workflows' = DictSet(workflows, wf.name, wf)
    /\ UNCHANGED <<registry, call>>

\* A variant of the failed lookup that creates the state before the check.
ExecuteNotFoundWithState(name) ==
    /\ pc = "idle"
    /\ name \notin DOMAIN workflows
    /\ workflow_name' = Some(name)
    /\ state' = Some(NewState(EmptyDict))
    /\ pc' = "raised"
    /\ error' = Some(WorkflowNotFound(name))
    /\ UNCHANGED <<registry, workflows, workflow, current_node_id,
                   node, result, steps, visited>>

\* execute_workflow, lines 49-50: the workflow name is not registered.
ExecuteNotFound(name) ==
    /\ pc = "idle"
    /\ name \notin DOMAIN workflows
    /\ workflow_name' = Some(name)
    /\ pc' = "raised"
    /\ error' = Some(WorkflowNotFound(name))
    /\ UNCHANGED <<registry, workflows, workflow, state, current_node_id,
                   node, result, steps, visited>>

\* execute_workflow, lines 52-55: look the workflow up, create the state.
ExecuteStart(name, initial_state) ==
    /\ pc = "idle"
    /\ name \in DOMAIN workflows
    /\ workflow_name' = Some(name)
    /\ workflow' = Some(workflows[name])
    /\ state' = Some(NewState(OrEmptyDict(initial_state)))
    /\ current_node_id' = Some(workflows[name].entry_point)
    /\ pc' = "loop"
    /\ UNCHANGED <<registry, workflows, node, result, error, steps, visited>>

\* A variant of the return that leaves current_node at the last node.
ReturnStateKeepsNode ==
    /\ pc = "loop"
    /\ ~StrTruthy(current_node_id)
    /\ pc' = "returned"
    /\ UNCHANGED <<registry, workflows, workflow_name, workflow, state,
                   current_node_id, node, result, error, steps, visited>>

\* Lines 57, 99-100: the loop ends; current_node is reset and state returned.
ReturnState ==
    /\ pc = "loop"
    /\ ~StrTruthy(current_node_id)
    /\ state' = Some([state[1] EXCEPT !.current_node = Nil])
    /\ pc' = "returned"
    /\ UNCHANGED <<registry, workflows, workflow_name, workflow,
                   current_node_id, node, result, error, steps, visited>>

\* Lines 58-59: the current node id is not in workflow.nodes.
RaiseNodeNotFound ==
    /\ pc = "loop"
    /\ StrTruthy(current_node_id)
    /\ current_node_id[1] \notin DOMAIN workflow[1].nodes
    /\ pc' = "raised"
    /\ error' = Some(NodeNotFound(current_node_id[1]))
    /\ UNCHANGED <<registry, workflows, workflow_name, workflow, state,
                   current_node_id, node, result, steps, visited>>

\* Lines 61-63: enter the node.
EnterNode ==
    /\ pc = "loop"
    /\ StrTruthy(current_node_id)
    /\ current_node_id[1] \in DOMAIN workflow[1].nodes
    /\ steps < MaxSteps
    /\ LET n == workflow[1].nodes[current_node_id[1]]
       IN /\ node' = Some(n)
          /\ state' = Some([state[1] EXCEPT !.current_node = Some(n.node_id),
                                            !.status = "running"])
    /\ steps' = steps + 1
    /\ visited' = Append(visited, current_node_id[1])
    /\ pc' = "invoke"
    /\ UNCHANGED <<registry, workflows, workflow_name, workflow,
                   current_node_id, result, error>>

\* A variant of the except clause that re-raises without logging.
ExceptClauseNoLog(s, e) ==
    /\ state' = Some([s EXCEPT !.status = "failed"])
    /\ error' = Some(e)
    /\ pc' = "raised"

\* A variant of the except clause that discards the data merged so far.
ExceptClauseRollback(s, e) ==
    /\ state' = Some(add_log([s EXCEPT !.status = "failed", !.data = EmptyDict],
                             ErrorMessage(node[1].node_id, e), "ERROR"))
    /\ error' = Some(e)
    /\ pc' = "raised"

\* Lines 94-97: the except clause, applied to state s and exception e.
ExceptClause(s, e) ==
    /\ state' = Some(add_log([s EXCEPT !.status = "failed"],
                             ErrorMessage(node[1].node_id, e), "ERROR"))
    /\ error' = Some(e)
    /\ pc' = "raised"

\* Lines 67-68: the node's function is not in the registry.
InvokeNotRegistered ==
    /\ pc = "invoke"
    /\ node[1].function \notin DOMAIN registry
    /\ ExceptClause(state[1], FunctionNotFound(node[1].function))
    /\ UNCHANGED <<registry, workflows, workflow_name, workflow,
                   current_node_id, node, result, steps, visited>>

\* The state after the part of a handler body that logs.
BodyLogged(func, s) ==
    IF ~func.logs THEN s
    ELSE IF func.name \notin CodeReviewNames
    THEN add_log(s, HandlerLogMessage, "INFO")
    ELSE IF \E outcome \in BodyOutcomes(func, s) : outcome.raises THEN s
    ELSE add_log(s, CodeReviewLogMessage(func.name, s), "INFO")

\* Lines 70-73, func is a plain function: func(state) runs its body, which
\* returns outcome.ret or raises.
InvokeFunction(outcome) ==
    /\ pc = "invoke"
    /\ node[1].function \in DOMAIN registry
    /\ LET func == registry[node[1].function]
       IN /\ ~HasAwaitAttr(func)
          /\ func.kind = "def"
          /\ outcome \in BodyOutcomes(func, state[1])
          /\ IF outcome.raises
             THEN /\ ExceptClause(BodyLogged(func, state[1]), RaisedBy(func))
                  /\ UNCHANGED result
             ELSE /\ state' = Some(BodyLogged(func, state[1]))
                  /\ result' = Some(outcome.ret)
                  /\ pc' = "merge"
                  /\ UNCHANGED error
    /\ UNCHANGED <<registry, workflows, workflow_name, workflow,
                   current_node_id, node, steps, visited>>

\* Lines 70-73, func is an `async def` function: it has no __await__
\* attribute, so func(state) is called without await; the call returns a
\* coroutine object and the body does not run.
InvokeCoroutineFunction ==
    /\ pc = "invoke"
    /\ node[1].function \in DOMAIN registry
    /\ LET func == registry[node[1].function]
       IN /\ ~HasAwaitAttr(func)
          /\ func.kind = "async def"
    /\ result' = Some(VCoroutine)
    /\ pc' = "merge"
    /\ UNCHANGED <<registry, workflows, workflow_name, workflow, state,
                   current_node_id, node, error, steps, visited>>

\* Lines 70-73, func has an __await__ attribute: `await func(state)`
\* suspends execute_workflow until the awaitable completes.
InvokeAwait ==
    /\ pc = "invoke"
    /\ node[1].function \in DOMAIN registry
    /\ HasAwaitAttr(registry[node[1].function])
    /\ pc' = "awaiting"
    /\ UNCHANGED <<registry, workflows, workflow_name, workflow, state,
                   current_node_id, node, result, error, steps, visited>>

\* Line 73: the awaited handler completes with outcome.ret or raises.
ResumeAwait(outcome) ==
    /\ pc = "awaiting"
    /\ outcome \in BodyOutcomes(registry[node[1].function], state[1])
    /\ IF outcome.raises
       THEN /\ ExceptClause(state[1], RaisedBy(registry[node[1].function]))
            /\ UNCHANGED result
       ELSE /\ result' = Some(outcome.ret)
            /\ pc' = "merge"
            /\ UNCHANGED <<state, error>>
    /\ UNCHANGED <<registry, workflows, workflow_name, workflow,
                   current_node_id, node, steps, visited>>

\* A variant of the label that reads the flag a returned mapping carries.
ConditionLabelOfFlag(res) ==
    IF IsDict(res) /\ "quality_meets_threshold" \in DOMAIN res.m
    THEN Lower(StrOfBool(PyBool(res.m["quality_meets_threshold"])))
    ELSE Lower(StrOfBool(PyBool(res)))

\* Line 86: the branch label of a condition node.
ConditionLabel(res) == Lower(StrOfBool(PyBool(res)))

\* Line 90: node.next_nodes.get('default') or next(iter(node.next_nodes.values()))
DefaultOrFirst(next_nodes) ==
    IF StrTruthy(DictGet(next_nodes, "default"))
    THEN DictGet(next_nodes, "default")
    ELSE Some(FirstValue(next_nodes))

\* Lines 83-90: the next node id after node nd returned res.
NextNodeId(nd, res) ==
    IF nd.node_type = "condition"
    THEN DictGet(nd.next_nodes, ConditionLabel(res))
    ELSE IF Len(nd.next_nodes) # 0
         THEN DefaultOrFirst(nd.next_nodes)
         ELSE Nil

\* Lines 76-77: the state after the merge of result res.
Merged(s, res) == IF IsDict(res) THEN update_state(s, res.m) ELSE s

\* Lines 76-77 raise: the result is a dict that update_state(**result)
\* cannot take as keywords.
MergeRaises ==
    /\ pc = "merge"
    /\ IsDict(result[1])
    /\ ~KeywordsBind(result[1].m)
    /\ ExceptClause(state[1], KeywordTypeError)
    /\ UNCHANGED <<registry, workflows, workflow_name, workflow,
                   current_node_id, node, result, steps, visited>>

\* A variant of the completion that, for a table without a usable "default",
\* takes any of its targets instead of the first.
CompleteNodeAnyTarget ==
    /\ pc = "merge"
    /\ IsDict(result[1]) => KeywordsBind(result[1].m)
    /\ state' = Some(add_log([Merged(state[1], result[1]) EXCEPT !.status = "completed"],
                             CompletedMessage(node[1].node_id), "INFO"))
    /\ current_node_id' \in
          IF /\ node[1].node_type # "condition"
             /\ Len(node[1].next_nodes) # 0
             /\ ~StrTruthy(DictGet(node[1].next_nodes, "default"))
          THEN {Some(node[1].next_nodes[i][2]) : i \in 1..Len(node[1].next_nodes)}
          ELSE {NextNodeId(node[1], result[1])}
    /\ pc' = "loop"
    /\ UNCHANGED <<registry, workflows, workflow_name, workflow, node, result,
                   error, steps, visited>>

\* Lines 76-92: merge the result, mark the node completed, pick the next node.
CompleteNode ==
    /\ pc = "merge"
    /\ IsDict(result[1]) => KeywordsBind(result[1].m)
    /\ state' = Some(add_log([Merged(state[1], result[1]) EXCEPT !.status = "completed"],
                             CompletedMessage(node[1].node_id), "INFO"))
    /\ current_node_id' = NextNodeId(node[1], result[1])
    /\ pc' = "loop"
    /\ UNCHANGED <<registry, workflows, workflow_name, workflow, node, result,
                   error, steps, visited>>

\* The outcomes the handler of the node being run can have.
PendingOutcomes ==
    IF pc \in {"invoke", "awaiting"} /\ node[1].function \in DOMAIN registry
    THEN BodyOutcomes(registry[node[1].function], state[1])
    ELSE {}

\* One direct call of execute_workflow: no run table, no event loop.
Direct == UNCHANGED <<registered, workflow_runs, tasks, current, response>>

Next ==
    \/ \E func \in Handlers : register_function(func) /\ Direct
    \/ \E wf \in Graphs : register_workflow(wf) /\ Direct
    \/ \E name \in WorkflowNames : ExecuteNotFound(name) /\ Direct
    \/ \E name \in WorkflowNames, initial_state \in InitialStates :
          ExecuteStart(name, initial_state) /\ Direct
    \/ ReturnState /\ Direct
    \/ RaiseNodeNotFound /\ Direct
    \/ EnterNode /\ Direct
    \/ InvokeNotRegistered /\ Direct
    \/ \E outcome \in PendingOutcomes : InvokeFunction(outcome) /\ Direct
    \/ InvokeCoroutineFunction /\ Direct
    \/ InvokeAwait /\ Direct
    \/ \E outcome \in PendingOutcomes : ResumeAwait(outcome) /\ Direct
    \/ MergeRaises /\ Direct
    \/ CompleteNode /\ Direct

Spec == Init /\ [][Next]_vars

(***************************************************************************)
(* The engine with the history of its registrations: `registered` holds    *)
(* the table and the entry of the last register_* call and the entry that  *)
(* the name had before it (Nil when the name was new).                     *)
(***************************************************************************)
\* The entry a table holds under a name, if any.
Entry(table, name) == IF name \in DOMAIN table THEN Some(table[name]) ELSE Nil

Registered(table, entry, replaced) ==
    /\ registered' = Some([table |-> table, entry |-> entry, replaced |-> replaced])
    /\ UNCHANGED <<workflow_runs, tasks, current, response>>

NextRegister ==
    \/ \E func \in Handlers :
          /\ register_function(func)
          /\ Registered("registry", func, Entry(registry, func.name))
    \/ \E wf \in Graphs :
          /\ register_workflow(wf)
          /\ Registered("workflows", wf, Entry(workflows, wf.name))
    \/ \E name \in WorkflowNames : ExecuteNotFound(name) /\ Direct
    \/ \E name \in WorkflowNames : ExecuteStart(name, Nil) /\ Direct
    \/ ReturnState /\ Direct
    \/ RaiseNodeNotFound /\ Direct
    \/ EnterNode /\ Direct
    \/ InvokeNotRegistered /\ Direct
    \/ \E outcome \in PendingOutcomes : InvokeFunction(outcome) /\ Direct
    \/ InvokeCoroutineFunction /\ Direct
    \/ InvokeAwait /\ Direct
    \/ \E outcome \in PendingOutcomes : ResumeAwait(outcome) /\ Direct
    \/ MergeRaises /\ Direct
    \/ CompleteNode /\ Direct

SpecRegister == Init /\ [][NextRegister]_vars

(***************************************************************************)
(* The application of main.py after startup: its five handlers and the     *)
(* code_review workflow are registered, and the workflow is executed on a  *)
(* request's initial state.                                                *)
(***************************************************************************)
\* main.py lines 149-208
GraphCodeReview ==
    WorkflowDefinition("code_review", "extract_functions",
        [node_id \in CodeReviewNames |->
            CASE node_id = "extract_functions" ->
                   Node(node_id, "task", node_id, << <<"default", "check_complexity">> >>)
              [] node_id = "check_complexity" ->
                   Node(node_id, "task", node_id, << <<"default", "detect_issues">> >>)
              [] node_id = "detect_issues" ->
                   Node(node_id, "task", node_id,
                        << <<"default", "suggest_improvements">> >>)
              [] node_id = "suggest_improvements" ->
                   Node(node_id, "condition", node_id,
                        << <<"true", "end_workflow">>, <<"false", "extract_functions">> >>)
              [] OTHER -> Node(node_id, "task", node_id, << >>)])

\* main.py lines 28-146: every handler is a plain function that logs.
CodeReviewRegistry == [name \in CodeReviewNames |-> Handler(name, "def", TRUE)]

\* Source texts: one short function; the same with a print and a TODO; a
\* commented function; seven functions; seven functions and a print.
CodeGood == VText(<<SampleDef, SampleBody>>)
CodeDebug == VText(<<SampleDef, SampleBody, SamplePrint, SampleTodo>>)
CodeTodo == VText(<<SampleTodo, SampleDef, SampleTodo, SampleBody, "">>)
CodeMany ==
    VText(<<SampleDef, SampleDef, SampleDef, SampleDef, SampleDef, SampleDef,
            SampleDef>>)
CodeManyDebug ==
    VText(<<SampleDef, SampleDef, SampleDef, SampleDef, SampleDef, SampleDef,
            SampleDef, SamplePrint>>)

\* The initial states of a code review: no data, an empty text, the sample
\* texts, and a code that is not a str.
CodeInputs ==
    {Nil, Some(EmptyDict)} \cup
    {Some([code |-> c]) :
        c \in {VText(<<"">>), CodeGood, CodeDebug, CodeTodo, CodeMany,
                CodeManyDebug, VInt(0)}}

\* main.py lines 215-218: startup has registered the workflow.
InitCodeReview ==
    /\ registry = CodeReviewRegistry
    /\ workflows = [name \in {"code_review"} |-> GraphCodeReview]
    /\ NoCall
    /\ NoRuns

\* A step of the call once it has started; the handlers are plain functions,
\* so the call runs without suspension until it returns or raises.
CodeReviewStep ==
    \/ ReturnState /\ Direct
    \/ EnterNode /\ Direct
    \/ \E outcome \in PendingOutcomes : InvokeFunction(outcome) /\ Direct
    \/ CompleteNode /\ Direct

NextCodeReview ==
    \/ \E initial_state \in CodeInputs :
          ExecuteStart("code_review", initial_state) /\ Direct
    \/ CodeReviewStep

SpecCodeReview ==
    InitCodeReview /\ [][NextCodeReview]_vars /\ WF_vars(CodeReviewStep)

(***************************************************************************)
(* The run table of endpoints.py. run_workflow records a run and schedules *)
(* an asyncio task for it; the event loop executes one task at a time and  *)
(* takes another only when the running one awaits or ends. The variables   *)
(* of `call` belong to the task being executed; the frame of every other  *)
(* task is kept in `tasks`. Run ids (uuid4) are numbered 1, 2, ...         *)
(***************************************************************************)
\* The frame of the call being executed.
Frame ==
    [pc |-> pc, workflow_name |-> workflow_name, workflow |-> workflow,
     state |-> state, current_node_id |-> current_node_id, node |-> node,
     result |-> result, error |-> error, steps |-> steps, visited |-> visited]

\* The frame of a task that has not run yet.
NewFrame ==
    [pc |-> "idle", workflow_name |-> Nil, workflow |-> Nil, state |-> Nil,
     current_node_id |-> Nil, node |-> Nil, result |-> Nil, error |-> Nil,
     steps |-> 0, visited |-> <<>>]

\* The event loop makes frame fr the call being executed.
Load(fr) ==
    /\ pc' = fr.pc
    /\ workflow_name' = fr.workflow_name
    /\ workflow' = fr.workflow
    /\ state' = fr.state
    /\ current_node_id' = fr.current_node_id
    /\ node' = fr.node
    /\ result' = fr.result
    /\ error' = fr.error
    /\ steps' = fr.steps
    /\ visited' = fr.visited

\* Handlers with a known body: inc, an awaitable object that counts like
\* inc once awaited, and an `async def` function.
later == Handler("later", "awaitable callable", FALSE)
RunsRegistry ==
    [name \in {"inc", "later", "f"} |->
        CASE name = "inc" -> inc
          [] name = "later" -> later
          [] OTHER -> Handler("f", "async def", FALSE)]

\* A pipeline whose first node awaits and has a branch table without a
\* "default" key.
GraphLater ==
    WorkflowDefinition("w", "a",
        [a |-> Node("a", "task", "later", << <<"other", "b">>, <<"more", "c">> >>),
         b |-> Node("b", "condition", "f", << <<"true", "c">> >>),
         c |-> Node("c", "loop", "inc", << >>)])

RunsWorkflows ==
    [name \in {"w", "v"} |-> IF name = "w" THEN GraphLater ELSE GraphInc]

\* The initial_state fields of a run request (schemas.py: a dict, default {}).
RunInitialStates == {Some(EmptyDict), Some([n |-> VInt(0)])}

\* The application after startup: handlers and workflows registered, no
\* run requested.
InitRuns ==
    /\ registry = RunsRegistry
    /\ workflows = RunsWorkflows
    /\ NoCall
    /\ NoRuns

\* endpoints.run_workflow: record the run as running and schedule its task.
run_workflow(name, initial_state) ==
    /\ current = Nil
    /\ Len(workflow_runs) < MaxRuns
    /\ LET run_id == Len(workflow_runs) + 1
       IN /\ workflow_runs' =
                Append(workflow_runs,
                       [status |-> "running", state |-> Nil,
                        task |-> Some(run_id), error |-> Nil])
          /\ tasks' = Append(tasks, [workflow_name |-> name,
                                      initial_state |-> initial_state,
                                      at |-> "created", frame |-> NewFrame])
    /\ UNCHANGED <<registry, workflows, call, registered, current, response>>

\* The event loop takes task run_id: a created task starts, a suspended one
\* goes on where it awaited.
Dispatch(run_id) ==
    /\ current = Nil
    /\ run_id \in DOMAIN tasks
    /\ tasks[run_id].at \in {"created", "suspended"}
    /\ current' = Some(run_id)
    /\ Load(tasks[run_id].frame)
    /\ tasks' = [tasks EXCEPT ![run_id].at = "running"]
    /\ UNCHANGED <<registry, workflows, registered, workflow_runs, response>>

\* endpoints.py lines 60-63: the task calls execute_workflow with the
\* arguments of its request.
TaskCall ==
    /\ current # Nil
    /\ LET task == tasks[current[1]]
       IN \/ ExecuteStart(task.workflow_name, task.initial_state)
          \/ ExecuteNotFound(task.workflow_name)
    /\ UNCHANGED <<registered, workflow_runs, tasks, current, response>>

\* A variant of the suspension in which every iteration yields to the loop.
SuspendAnywhere ==
    /\ current # Nil
    /\ pc \in {"loop", "invoke", "awaiting", "merge"}
    /\ tasks' = [tasks EXCEPT ![current[1]].at = "suspended",
                              ![current[1]].frame = Frame]
    /\ current' = Nil
    /\ Load(NewFrame)
    /\ UNCHANGED <<registry, workflows, registered, workflow_runs, response>>

\* workflow.py line 73, `await func(state)`: the awaitable is not done, the
\* task is suspended and the event loop is free.
Suspend ==
    /\ current # Nil
    /\ pc = "awaiting"
    /\ tasks' = [tasks EXCEPT ![current[1]].at = "suspended",
                              ![current[1]].frame = Frame]
    /\ current' = Nil
    /\ Load(NewFrame)
    /\ UNCHANGED <<registry, workflows, registered, workflow_runs, response>>

\* A variant of execute() that marks the run completed without its state.
FinishWithoutState ==
    /\ current # Nil
    /\ pc \in {"returned", "raised"}
    /\ workflow_runs' =
          IF pc = "returned"
          THEN [workflow_runs EXCEPT ![current[1]].status = "completed"]
          ELSE [workflow_runs EXCEPT ![current[1]].error = Some(error[1].message),
                                     ![current[1]].status = "failed"]
    /\ tasks' = [tasks EXCEPT ![current[1]].at = "done",
                              ![current[1]].frame = Frame]
    /\ current' = Nil
    /\ Load(NewFrame)
    /\ UNCHANGED <<registry, workflows, registered, response>>

\* endpoints.py lines 64-68: execute_workflow returned or raised; the task
\* records the outcome and ends. The ended task keeps its last frame.
Finish ==
    /\ current # Nil
    /\ pc \in {"returned", "raised"}
    /\ workflow_runs' =
          IF pc = "returned"
          THEN [workflow_runs EXCEPT ![current[1]].state = state,
                                     ![current[1]].status = "completed"]
          ELSE [workflow_runs EXCEPT ![current[1]].error = Some(error[1].message),
                                     ![current[1]].status = "failed"]
    /\ tasks' = [tasks EXCEPT ![current[1]].at = "done",
                              ![current[1]].frame = Frame]
    /\ current' = Nil
    /\ Load(NewFrame)
    /\ UNCHANGED <<registry, workflows, registered, response>>

\* The answer of endpoints.get_workflow_state for run_id.
StateResponse(run_id) ==
    IF run_id \notin DOMAIN workflow_runs
    THEN [code |-> 404, status |-> "", detail |-> "not found"]
    ELSE LET run == workflow_runs[run_id]
         IN IF run.state = Nil /\ run.status = "running"
            THEN [code |-> 200, status |-> "running", detail |-> ""]
            ELSE IF run.error # Nil
            THEN [code |-> 200, status |-> "error", detail |-> ""]
            ELSE IF run.state = Nil
            THEN [code |-> 500, status |-> "",
                  detail |-> "Workflow state is not available"]
            ELSE [code |-> 200, status |-> run.state[1].status, detail |-> ""]

\* endpoints.get_workflow_state
get_workflow_state(run_id) ==
    /\ current = Nil
    /\ response' = Some(StateResponse(run_id))
    /\ UNCHANGED <<registry, workflows, call, registered, workflow_runs, tasks,
                   current>>

\* A step of execute_workflow made by the task being executed.
InTask == current # Nil /\ UNCHANGED <<registered, workflow_runs, tasks, current, response>>

NextRuns ==
    \/ \E name \in WorkflowNames, initial_state \in RunInitialStates :
          run_workflow(name, initial_state)
    \/ \E run_id \in 1..MaxRuns : Dispatch(run_id)
    \/ TaskCall
    \/ Suspend
    \/ Finish
    \/ \E run_id \in 1..(MaxRuns + 1) : get_workflow_state(run_id)
    \/ ReturnState /\ InTask
    \/ EnterNode /\ InTask
    \/ \E outcome \in PendingOutcomes : InvokeFunction(outcome) /\ InTask
    \/ InvokeCoroutineFunction /\ InTask
    \/ InvokeAwait /\ InTask
    \/ \E outcome \in PendingOutcomes : ResumeAwait(outcome) /\ InTask
    \/ CompleteNode /\ InTask

SpecRuns == InitRuns /\ [][NextRuns]_vars

(***************************************************************************)
(* Vocabulary of the properties below.                                     *)
(***************************************************************************)
\* The execution log and data of the run's state.
Log == state[1].execution_log
Data == state[1].data

\* Sequence p is an initial segment of sequence q.
IsPrefix(p, q) == Len(p) <= Len(q) /\ SubSeq(q, 1, Len(p)) = p

\* Number of ERROR entries of a log.
ErrorCount(log) == Cardinality({i \in 1..Len(log) : log[i].level = "ERROR"})

\* The targets a branch table stores under a label (none or one).
Targets(next_nodes, label) ==
    {next_nodes[i][2] : i \in {j \in 1..Len(next_nodes) : next_nodes[j][1] = label}}

\* current id `cur` is the target stored under `label`, or None if there is none.
IsBranch(cur, next_nodes, label) ==
    IF Targets(next_nodes, label) = {}
    THEN cur = Nil
    ELSE cur # Nil /\ cur[1] \in Targets(next_nodes, label)

\* The values the truthiness rule calls false.
FalsyValues ==
    { VBool(FALSE), VInt(0), VStr(""), VList(<<>>), VDict(EmptyDict), VNone }

\* The step is a failure of the node being processed: raised by the handler
\* lookup or by the handler itself.
HandlerFailureStep == pc \in {"invoke", "awaiting"} /\ pc' = "raised"

\* The step completes the node being processed.
CompletionStep == pc = "merge" /\ pc' = "loop"

(***************************************************************************)
(* C1. When the node's handler name is absent from the registry, or the    *)
(* handler raises, the run fails: status is failed, current_node is the id *)
(* of the attempted node, exactly one ERROR entry naming that node is      *)
(* appended to the log, the exception leaves execute_workflow, and no      *)
(* step follows the failure (no retry, no continuation).                   *)
(***************************************************************************)
C1_HandlerFailureRecorded ==
    [][ /\ (pc = "invoke" /\ node[1].function \notin DOMAIN registry)
             => pc' = "raised"
        /\ HandlerFailureStep =>
             /\ state'[1].status = "failed"
             /\ state'[1].current_node = Some(node[1].node_id)
             /\ node' = node
             /\ IsPrefix(Log, Log')
             /\ ErrorCount(Log') = ErrorCount(Log) + 1
             /\ Log'[Len(Log')].level = "ERROR"
             /\ Log'[Len(Log')].message[2] = node[1].node_id
             /\ error' # Nil
             /\ steps' = steps
        /\ pc # "raised"
      ]_vars

\* A handler raised in a node entered after another node had completed.
C1_Witness ==
    /\ pc = "raised"
    /\ error # Nil /\ error[1].type = "KeyError"
    /\ state[1].status = "failed"
    /\ Len(Log) >= 2
    /\ Log[1].message = CompletedMessage("a")

(***************************************************************************)
(* C2. Every failure of a run, NodeNotFound included, leaves the state     *)
(* with status failed and a log entry appended for the failure.            *)
(***************************************************************************)
C2_EveryFailureRecorded ==
    (pc = "raised" /\ state # Nil) =>
        /\ state[1].status = "failed"
        /\ Len(Log) > 0
        /\ Log[Len(Log)].level = "ERROR"

(***************************************************************************)
(* C3. When the current node id is absent from the graph's nodes, the run  *)
(* fails with NodeNotFound and state.current_node is the missing id.       *)
(***************************************************************************)
C3_MissingNodeIsCurrent ==
    (pc = "raised" /\ StrTruthy(current_node_id)
       /\ error = Some(NodeNotFound(current_node_id[1]))) =>
        state[1].current_node = current_node_id

(***************************************************************************)
(* C4. After a condition node completes, the next node is the target of    *)
(* "true" when the raw result is truthy and of "false" when it is one of   *)
(* the falsy values; when the selected label is absent the traversal ends  *)
(* normally, with status completed and current_node None, whatever other   *)
(* labels the table holds.                                                 *)
(***************************************************************************)
C4_ConditionBranch ==
    [][ /\ (CompletionStep /\ node[1].node_type = "condition") =>
             IsBranch(current_node_id', node[1].next_nodes,
                      IF result[1] \in FalsyValues THEN "false" ELSE "true")
        /\ (pc = "loop" /\ node # Nil /\ node[1].node_type = "condition"
              /\ Targets(node[1].next_nodes,
                         IF result[1] \in FalsyValues THEN "false" ELSE "true") = {}) =>
             /\ pc' = "returned"
             /\ state'[1].status = "completed"
             /\ state'[1].current_node = Nil
             /\ error' = Nil
      ]_vars

\* A condition node with other labels but no "false" ended the run on an
\* empty string result.
C4_Witness ==
    /\ pc = "returned"
    /\ node # Nil /\ node[1].node_type = "condition"
    /\ result = Some(VStr(""))
    /\ Len(node[1].next_nodes) = 2
    /\ Targets(node[1].next_nodes, "false") = {}
    /\ state[1].status = "completed"

(***************************************************************************)
(* C5. The value merged and used for branch selection is the handler's     *)
(* completed return value, never a pending computation.                    *)
(***************************************************************************)
C5_ResultIsCompletedValue ==
    result # Nil => result[1].kind # "coroutine"

(***************************************************************************)
(* C6. For a task or loop node whose branch table has the label "default", *)
(* the next node is the target of "default", whatever that target is and   *)
(* whatever the other entries are.                                         *)
(***************************************************************************)
C6_DefaultBranch ==
    (pc = "loop" /\ node # Nil /\ node[1].node_type \in {"task", "loop"}
       /\ Targets(node[1].next_nodes, "default") # {}) =>
        IsBranch(current_node_id, node[1].next_nodes, "default")

(***************************************************************************)
(* C7. When the handler's result is a mapping, data after the node is the  *)
(* previous data with every key of the result added or overwritten and     *)
(* every other key unchanged; when it is not a mapping, data is unchanged. *)
(***************************************************************************)
C7_MergeOverwritesPerKey ==
    [][ (pc = "merge" /\ pc' # "merge") =>
          IF IsDict(result[1])
          THEN /\ DOMAIN Data' = DOMAIN Data \cup DOMAIN result[1].m
               /\ \A k \in DOMAIN result[1].m : Data'[k] = result[1].m[k]
               /\ \A k \in DOMAIN Data \ DOMAIN result[1].m : Data'[k] = Data[k]
          ELSE Data' = Data
      ]_vars

(***************************************************************************)
(* C8. A failure changes only the status and the log of the state: data    *)
(* (with every merge of the nodes completed before), current_node and      *)
(* metadata stay, and the log is only extended. Data changes in no step    *)
(* but the completion of a node.                                           *)
(***************************************************************************)
C8_FailureKeepsData ==
    [][ /\ (state # Nil /\ pc' = "raised") =>
             /\ state' # Nil
             /\ Data' = Data
             /\ state'[1].current_node = state[1].current_node
             /\ state'[1].metadata = state[1].metadata
             /\ IsPrefix(Log, Log')
        /\ (state # Nil /\ Data' # Data) => CompletionStep
      ]_vars

\* A run failed with the merges of two earlier nodes in its data.
C8_Witness ==
    /\ pc = "raised"
    /\ state # Nil /\ state[1].status = "failed"
    /\ DOMAIN Data = {"x", "y"}
    /\ Data["x"] = VInt(1)
    /\ steps = 3

(***************************************************************************)
(* C9. A condition node whose handler returns an empty mapping takes the   *)
(* "false" branch, and the node leaves data unchanged.                     *)
(***************************************************************************)
C9_EmptyMappingIsFalse ==
    [][ (pc = "merge" /\ node[1].node_type = "condition"
           /\ IsDict(result[1]) /\ DOMAIN result[1].m = {}) =>
          /\ pc' = "loop"
          /\ IsBranch(current_node_id', node[1].next_nodes, "false")
          /\ Data' = Data
      ]_vars

\* A condition node took its "false" branch on {} with data present.
C9_Witness ==
    /\ pc = "loop"
    /\ node # Nil /\ node[1].node_type = "condition"
    /\ result = Some(VDict(EmptyDict))
    /\ current_node_id = Some("c")
    /\ DOMAIN Data # {}

(***************************************************************************)
(* C10. A task node with an empty branch table is terminal: once its       *)
(* result is merged the next node id is None, the next step returns the    *)
(* state with current_node None and the merge in its data without         *)
(* entering another node, and nothing follows the return.                  *)
(***************************************************************************)
C10_EmptyTableIsTerminal ==
    [][ /\ (CompletionStep /\ node[1].node_type = "task"
              /\ Len(node[1].next_nodes) = 0) =>
             current_node_id' = Nil
        /\ (pc = "loop" /\ node # Nil /\ node[1].node_type = "task"
              /\ Len(node[1].next_nodes) = 0) =>
             /\ pc' = "returned"
             /\ state'[1].current_node = Nil
             /\ state'[1].status = "completed"
             /\ Data' = Data
             /\ IsDict(result[1]) =>
                  \A k \in DOMAIN result[1].m : Data'[k] = result[1].m[k]
             /\ steps' = steps
             /\ error' = Nil
        /\ pc # "returned"
      ]_vars

\* The terminal task c of the cycle graph returned with its merge applied.
C10_Witness ==
    /\ pc = "returned"
    /\ node # Nil /\ node[1].node_type = "task" /\ Len(node[1].next_nodes) = 0
    /\ state[1].current_node = Nil
    /\ result = Some(VDict(DictXNested))
    /\ Data["x"] = DictXNested["x"]
    /\ steps = 3

(***************************************************************************)
(* C11. The engine bounds no run: on the two-node cycle a (task, default   *)
(* -> b), b (condition, true -> a) whose handler returns a non-empty       *)
(* mapping on every call, the run neither returns nor fails; it visits a,  *)
(* b, a, b, ... one node per iteration, and in the loop the next node can  *)
(* always be entered unless the step limit MaxSteps has been reached.      *)
(***************************************************************************)
\* The call runs the cycle with the counting handler and a count to start from.
IncRun ==
    /\ pc # "idle"
    /\ workflow = Some(GraphInc)
    /\ "inc" \in DOMAIN registry
    /\ "n" \in DOMAIN Data

C11_CycleNeverEnds ==
    IncRun =>
        /\ pc \notin {"returned", "raised"}
        /\ Len(visited) = steps
        /\ \A i \in 1..Len(visited) :
              visited[i] = IF i % 2 = 1 THEN "a" ELSE "b"
        /\ Data["n"] = VInt(Cardinality({i \in 1..Len(Log) : Log[i].level = "INFO"}))
        /\ pc = "loop" =>
              /\ current_node_id = Some(IF steps % 2 = 0 THEN "a" ELSE "b")
              /\ steps < MaxSteps => ENABLED EnterNode

\* The cycle is in its third iteration, back at a.
C11_Witness ==
    /\ IncRun
    /\ visited = <<"a", "b", "a">>
    /\ pc = "merge"
    /\ result = Some(VDict([n |-> VInt(3)]))

(***************************************************************************)
(* Vocabulary of the properties of runs.                                   *)
(***************************************************************************)
\* The runs whose task waits for the event loop.
Waiting == {r \in DOMAIN tasks : tasks[r].at \in {"created", "suspended"}}

\* The task being executed is inside execute_workflow, not finished.
Iterating == current # Nil /\ pc \in {"loop", "invoke", "awaiting", "merge"}

\* The frame of run r: the call being executed, or the frame kept for it.
FrameOf(r) == IF current = Some(r) THEN Frame ELSE tasks[r].frame

(***************************************************************************)
(* C12 as stated. Runs do not block one another: whenever the run being    *)
(* executed has started and not finished, at its awaited handler or at the *)
(* head of its loop, and another launched run waits, the running one can   *)
(* give way so that the other executes.                                    *)
(***************************************************************************)
C12_RunsNeverBlock ==
    (Iterating /\ Waiting # {} /\ pc \in {"loop", "awaiting"}) =>
        ENABLED Suspend

(***************************************************************************)
(* C12, amended. A run gives way only at an awaited handler: the event     *)
(* loop leaves a task only when it awaits or has ended, every task that    *)
(* waits after its start is suspended at the await of the node it entered  *)
(* last, the frame of a task changes only while that task is the one being *)
(* executed, and a run enters a node only when none of its handlers is in  *)
(* flight.                                                                 *)
(***************************************************************************)
C12_GivesWayOnlyAtAwait ==
    [][ /\ (current # Nil /\ current' # current) =>
              pc \in {"awaiting", "returned", "raised"}
        /\ \A r \in DOMAIN tasks :
              tasks[r].at = "suspended" =>
                  /\ tasks[r].frame.pc = "awaiting"
                  /\ tasks[r].frame.steps = Len(tasks[r].frame.visited)
                  /\ HasAwaitAttr(registry[tasks[r].frame.node[1].function])
        /\ \A r \in DOMAIN tasks :
              current # Some(r) => tasks'[r].frame = tasks[r].frame
        /\ (current # Nil /\ current' = current /\ steps' # steps) =>
              pc = "loop" /\ steps' = steps + 1
      ]_vars

\* Run 1 is suspended at its awaited handler while run 2, launched after
\* it, has executed its three nodes and is recorded completed.
C12_Witness ==
    /\ Len(tasks) = 2
    /\ tasks[1].at = "suspended"
    /\ tasks[1].frame.pc = "awaiting"
    /\ workflow_runs[1].status = "running"
    /\ workflow_runs[2].status = "completed"
    /\ tasks[2].frame.visited = <<"a", "b", "c">>

(***************************************************************************)
(* C13. Registering under a name replaces what the name had: right after   *)
(* the call, and until the next registration, the table holds the new      *)
(* entry under its name, so a run started meanwhile gets the new workflow  *)
(* and an invocation resolved meanwhile runs the new handler; a            *)
(* registration changes no other entry, leaves the set of names unchanged  *)
(* when the name was already there, and registering the last entry again   *)
(* would leave the table as it is.                                         *)
(***************************************************************************)
\* The table a registration history r speaks of.
TableOf(r) == IF r.table = "registry" THEN registry ELSE workflows

\* The step resolves the handler name of the node being run to func.
ResolvesTo(func) ==
    CASE func.kind = "awaitable callable" -> pc' = "awaiting"
      [] func.kind = "async def" -> pc' = "merge" /\ result' = Some(VCoroutine)
      [] OTHER ->
           \/ pc' = "merge" /\ state' = Some(BodyLogged(func, state[1]))
           \/ pc' = "raised" /\ error' = Some(RaisedBy(func))

C13_ReRegistrationReplaces ==
    /\ [](registered # Nil =>
            LET r == registered[1]
            IN /\ Entry(TableOf(r), r.entry.name) = Some(r.entry)
               /\ DictSet(TableOf(r), r.entry.name, r.entry) = TableOf(r)
               /\ (r.table = "workflows" /\ workflow_name = Some(r.entry.name)) =>
                     workflow = Some(r.entry))
    /\ [][ /\ (registered # Nil /\ registered[1].table = "registry"
                /\ pc = "invoke"
                /\ node[1].function = registered[1].entry.name) =>
                  ResolvesTo(registered[1].entry)
           /\ registered' # registered =>
                 LET r == registered'[1]
                     old == IF r.table = "registry" THEN registry ELSE workflows
                     new == IF r.table = "registry" THEN registry' ELSE workflows'
                 IN /\ DOMAIN new = DOMAIN old \cup {r.entry.name}
                    /\ r.replaced # Nil <=> r.entry.name \in DOMAIN old
                    /\ r.replaced # Nil => DOMAIN new = DOMAIN old
                    /\ \A name \in DOMAIN old \ {r.entry.name} :
                          new[name] = old[name]
                    /\ r.table = "registry" => workflows' = workflows
                    /\ r.table = "workflows" => registry' = registry
         ]_vars

\* The plain function f was replaced by an `async def` f, and the run
\* started afterwards got a coroutine object from the new entry.
C13_Witness ==
    /\ registered # Nil
    /\ registered[1].table = "registry"
    /\ registered[1].entry = Handler("f", "async def", FALSE)
    /\ registered[1].replaced = Some(Handler("f", "def", FALSE))
    /\ pc = "merge"
    /\ node[1].function = "f"
    /\ result = Some(VCoroutine)

(***************************************************************************)
(* C14. With the graph, the registry of deterministic handlers and the     *)
(* initial data fixed, the visit sequence is determined: of two runs of    *)
(* the same request, at every moment one has visited an initial segment of *)
(* what the other has visited, and once both have ended they have visited  *)
(* the same nodes in the same order, ended the same way and with the same  *)
(* status, a task node whose table has no "default" key included.          *)
(***************************************************************************)
\* Two tasks were created for the same request.
SameRequest(r1, r2) ==
    /\ tasks[r1].workflow_name = tasks[r2].workflow_name
    /\ DOMAIN tasks[r1].initial_state[1] = DOMAIN tasks[r2].initial_state[1]
    /\ \A k \in DOMAIN tasks[r1].initial_state[1] :
          tasks[r1].initial_state[1][k] = tasks[r2].initial_state[1][k]

\* The status of the state a frame holds ("none" before the state exists).
StatusOf(fr) == IF fr.state = Nil THEN "none" ELSE fr.state[1].status

C15_UnknownWorkflowFails ==
    /\ []((pc # "idle" /\ workflow_name[1] \notin DOMAIN workflows) =>
            /\ pc = "raised"
            /\ error = Some(WorkflowNotFound(workflow_name[1]))
            /\ state = Nil
            /\ workflow = Nil /\ node = Nil /\ result = Nil
            /\ steps = 0 /\ visited = <<>>)
    /\ [][ (pc = "idle" /\ pc' # "idle") =>
              /\ registry' = registry
              /\ workflows' = workflows
              /\ workflow_name'[1] \notin DOMAIN workflows <=> pc' = "raised"
         ]_vars

\* "nope" was asked for while handlers and workflows were registered.
C15_Witness ==
    /\ pc = "raised"
    /\ workflow_name = Some("nope")
    /\ error = Some(WorkflowNotFound("nope"))
    /\ state = Nil
    /\ DOMAIN workflows = {"w", "v"}
    /\ DOMAIN registry # {}

CompletionEntries(log) ==
    SelectSeq(log, LAMBDA e : /\ e.level = "INFO"
                              /\ Len(e.message) = 3
                              /\ e.message[1] = "Node '"
                              /\ e.message[3] = "' completed successfully")

\* The handler of the node entered last has not completed: it is being
\* looked up or run, or the lookup or the handler raised.
HandlerNotCompleted ==
    \/ pc \in {"invoke", "awaiting"}
    \/ /\ pc = "raised" /\ node # Nil
       /\ error[1] \in {FunctionNotFound(node[1].function)}
                       \cup {RaisedBy(func) : func \in Handlers}

\* The number of visited nodes whose handler completed and whose merge is
\* not pending.
HandlersCompleted ==
    IF HandlerNotCompleted \/ pc = "merge" THEN steps - 1 ELSE steps

C17_OneInfoPerCompletedHandler ==
    /\ [](state # Nil =>
            /\ CompletionEntries(Log) =
                  [i \in 1..HandlersCompleted |->
                      [level |-> "INFO",
                       message |-> CompletedMessage(workflow[1].nodes[visited[i]].node_id)]]
            /\ (pc = "raised" /\ state[1].status = "failed") =>
                  /\ Log[Len(Log)].level = "ERROR"
                  /\ Log[Len(Log)].message[2] = node[1].node_id)
    /\ [][(state # Nil /\ state' # Nil) => IsPrefix(Log, Log')]_vars

(***************************************************************************)
(* C18. Every run record is created "running", changes at most once, to    *)
(* "completed" or "failed", and never afterwards; in every state a record  *)
(* holds a state exactly when it is completed and an error exactly when it *)
(* is failed, so get_workflow_state answers every recorded run and never   *)
(* takes its 'Workflow state is not available' (500) branch.               *)
(***************************************************************************)
C18_RunRecordLifecycle ==
    /\ [](\A r \in DOMAIN workflow_runs :
            /\ workflow_runs[r].status \in {"running", "completed", "failed"}
            /\ workflow_runs[r].state # Nil <=> workflow_runs[r].status = "completed"
            /\ workflow_runs[r].error # Nil <=> workflow_runs[r].status = "failed"
            /\ StateResponse(r).code = 200)
    /\ [][ /\ \A r \in DOMAIN workflow_runs :
                 /\ r \in DOMAIN workflow_runs'
                 /\ workflow_runs'[r] # workflow_runs[r] =>
                       /\ workflow_runs[r].status = "running"
                       /\ workflow_runs'[r].status \in {"completed", "failed"}
           /\ \A r \in DOMAIN workflow_runs' \ DOMAIN workflow_runs :
                 workflow_runs'[r].status = "running"
           /\ response' # response => response'[1].code \in {200, 404}
         ]_vars

\* One run is recorded completed with its state, the other failed with its
\* error, and get_workflow_state has just answered for the failed one.
C18_Witness ==
    /\ Len(workflow_runs) = 2
    /\ workflow_runs[1].status = "completed"
    /\ workflow_runs[1].state # Nil
    /\ workflow_runs[2].status = "failed"
    /\ workflow_runs[2].error # Nil
    /\ response = Some(StateResponse(2))

(***************************************************************************)
(* C19. The code_review workflow terminates: every call that has started   *)
(* returns or raises, and it raises only when a handler raised. The nodes  *)
(* visited are an initial segment of extract_functions, check_complexity,  *)
(* detect_issues, suggest_improvements, end_workflow, the whole of it when *)
(* the call returns; suggest_improvements returns a non-empty mapping, so  *)
(* after it the next node is end_workflow whatever quality_meets_threshold *)
(* is, and the "false" edge back to extract_functions is never taken.      *)
(***************************************************************************)
CodeReviewPath ==
    <<"extract_functions", "check_complexity", "detect_issues",
      "suggest_improvements", "end_workflow">>

C19_CodeReviewTerminates ==
    /\ [](/\ IsPrefix(visited, CodeReviewPath)
          /\ pc = "returned" =>
                /\ visited = CodeReviewPath
                /\ state[1].status = "completed"
          /\ pc = "raised" =>
                /\ error = Some(RaisedBy(registry[node[1].function]))
                /\ state[1].status = "failed"
          /\ (pc = "loop" /\ node # Nil
                /\ node[1].node_id = "suggest_improvements") =>
                /\ DOMAIN result[1].m # {}
                /\ "quality_meets_threshold" \in DOMAIN Data
                /\ current_node_id = Some("end_workflow"))
    /\ (pc # "idle" ~> pc \in {"returned", "raised"})

\* A review of seven functions returned after the five nodes although its
\* quality is below the threshold.
C19_Witness ==
    /\ pc = "returned"
    /\ visited = CodeReviewPath
    /\ Data["function_count"].i = 7
    /\ Data["quality_score"].i = 65
    /\ ~Data["quality_meets_threshold"].b


=============================================================================
